---- MODULE Spec2Model ----
(***************************************************************************)
(* A model of umdatabase-tools: the ISO 9660 reader of isoparser.py (the   *)
(* volume descriptor scan, the path table loop, the directory walk) and    *)
(* the PSF/SFO decoder of umdb_gen_submission.py.                          *)
(*                                                                         *)
(* Bytes are integers 0..255.  A buffer is a record [bytes, len]: `bytes'  *)
(* holds the leading bytes of the buffer and every byte from Len(bytes) up *)
(* to len - 1 is zero (a sector's zero padding is not stored).             *)
(***************************************************************************)
EXTENDS Integers, Sequences, FiniteSets, TLC

VARIABLES
    image,      \* walk: the directory tree the disk was laid out from (input)
    disk,       \* walk: the stream, a sequence of sectors (sector e is disk[e+1])
    stack,      \* walk: the activation records of walk_dirs, innermost last
    out,        \* walk: the list `out` shared by every activation
    walkPc,     \* walk: "start" | "running" | "returned" | "failed" | "idle"
    walkErr,    \* walk: the exception that ended the walk, or "none"
    lastEntry,  \* walk: the DirEntry decoded by the last loop iteration
    volume,     \* scan: the stream's sectors, described ([sys, descs])
    scanner,    \* scan: "get_pvd_header" | "get_pvd_dump"
    filePos,    \* scan: the stream's position, in bytes
    raw_sector, \* scan: the local raw_sector
    pvdPc,      \* scan: "start" | "loop" | "returned" | "failed" | "idle"
    pvdErr,     \* scan: the exception that ended the scan, or "none"
    pvdResult,  \* scan: <<>>, or the one value returned (IsoHeader or out["pvd"])
    header,     \* table: the IsoHeader fields parse_iso reads the path table by
    file,       \* table: the stream: `start' zero bytes, then `bytes'
    data,       \* table: the local data
    ptIdx,      \* table: the local idx
    ptPc,       \* table: "start" | "loop" | "done" | "failed" | "idle"
    ptErr,      \* table: the exception that ended the loop, or "none"
    ptEntries,  \* table: the PathTableEntry built by the last iteration
    sfoDoc,     \* SFO: the document the buffer was laid out from (input)
    raw_sfo,    \* SFO: the buffer given to SFO(raw_sfo)
    sfo,        \* SFO: the object's fields: version, key_table_start,
                \*      data_table_start, table_entries, idx_table, data
    sfoI,       \* SFO: the loop variable i of line 49
    sfoPc,      \* SFO: "start" | "index" | "entries" | "done" | "failed" | "idle"
    sfoErr      \* SFO: the exception that ended the decode, or "none"

walkVars == <<image, disk, stack, out, walkPc, walkErr, lastEntry>>
pvdVars == <<volume, scanner, filePos, raw_sector, pvdPc, pvdErr, pvdResult>>

ptVars == <<header, file, data, ptIdx, ptPc, ptErr, ptEntries>>

sfoVars == <<sfoDoc, raw_sfo, sfo, sfoI, sfoPc, sfoErr>>

vars == <<walkVars, pvdVars, ptVars, sfoVars>>

\* what each operation leaves alone: the state of the others
notWalk == <<pvdVars, ptVars, sfoVars>>
notPvd == <<walkVars, ptVars, sfoVars>>
notPt == <<walkVars, pvdVars, sfoVars>>
notSfo == <<walkVars, pvdVars, ptVars>>

----------------------------------------------------------------------------
(* Bounds of the model. *)

\* walk_dirs activations the model follows before it stops exploring
MaxDepth == 34
\* loop iterations of one activation the model follows
MaxIter == 6
\* records after the self and parent records of a generated directory
MaxRecs == 2
\* sectors of a generated volume descriptor set
MaxDescs == 3
\* entries of a generated path table
MaxPtEntries == 2
\* the largest path_table_size of a generated header
MaxPtSize == 25
\* entries of a generated SFO document
MaxSfoEntries == 2

----------------------------------------------------------------------------
(* Program constants. *)

\* stream.read(0x800)
SectorSize == 2048
\* struct.calcsize("<bb i4x i4x 7s bbb h2x b")
DirHeaderSize == 33
\* offset + 0x21: where the name starts
NameOffset == 33
\* line 70 with the seek one sector early
PvdStartEarly == 15 * SectorSize
\* filestream.seek(0x8000)
PvdStart == 32768
\* struct.calcsize("<i44xh2xi ")
VolInfoSize == 56
\* struct.calcsize("<ii")
LTableSize == 8
\* struct.calcsize("<bbih"), and the 8 of PathTableEntry.size()
PtHeaderSize == 8
\* SFODataFormat
UTF8_NOTERM == 4
UTF8 == 516
INT32 == 1028
\* 0x14: the size of the SFO header
SfoHeaderSize == 20
\* 0x10: the size of an index table entry
SfoIndexSize == 16
\* decode_string(raw_sector, ..., 0x80)
TextSize == 128
\* struct.calcsize("4s2s2s2s2s2s2sb")
DateSize == 17

----------------------------------------------------------------------------
(* Integers of the struct module. *)

Min(a, b) == IF a < b THEN a ELSE b
Max(a, b) == IF a > b THEN a ELSE b

\* format "b": a signed byte
Signed8(b) == IF b >= 128 THEN b - 256 ELSE b
\* format "<h": a little-endian signed 16-bit integer
Signed16LE(b0, b1) ==
    LET u == b0 + 256 * b1 IN IF u >= 32768 THEN u - 65536 ELSE u
\* format "<I", for values below 2^31 (the model checker's integers are
\* 32-bit: a larger value is an error of TLC, never a wrapped value)
Unsigned32LE(b0, b1, b2, b3) == b0 + 256 * b1 + 65536 * b2 + 16777216 * b3
\* format "<i": a little-endian signed 32-bit integer
Signed32LE(b0, b1, b2, b3) ==
    b0 + 256 * b1 + 65536 * b2 + 16777216 * Signed8(b3)

\* x & 0x02 on a Python int (two's complement): bit 1 of x
And2(x) == IF ((x % 256) \div 2) % 2 = 1 THEN 2 ELSE 0

----------------------------------------------------------------------------
(* Buffers. *)

EmptyBuf == [bytes |-> <<>>, len |-> 0]

\* the byte at offset o, 0 <= o < buf.len
ByteAt(buf, o) == IF o < Len(buf.bytes) THEN buf.bytes[o + 1] ELSE 0

\* buf[idx] of a bytes object: negative indices count from the end
IndexOk(buf, idx) == idx >= -buf.len /\ idx < buf.len
Index(buf, idx) == ByteAt(buf, IF idx < 0 THEN idx + buf.len ELSE idx)

\* struct.unpack_from(fmt, buf, offset) with calcsize(fmt) = size: whether
\* the bytes are there (CPython: a negative offset counts from the end and
\* must leave room for size bytes before the end)
UnpackOk(buf, size, offset) ==
    IF offset < 0
    THEN offset + size <= 0 /\ offset + buf.len >= 0
    ELSE buf.len - offset >= size
\* the offset unpack_from reads at
UnpackAt(buf, offset) == IF offset < 0 THEN offset + buf.len ELSE offset

\* the n bytes unpack_from reads from offset on
BytesAt(buf, offset, n) ==
    [k \in 1..n |-> ByteAt(buf, UnpackAt(buf, offset) + k - 1)]

IsAscii(bs) == \A k \in 1..Len(bs) : bs[k] < 128

----------------------------------------------------------------------------
(* DirEntry: isoparser.py, class DirEntry. *)

\* what DirEntry(raw, offset) raises: "none" when it returns
DirEntryError(raw, offset) ==
    IF ~UnpackOk(raw, DirHeaderSize, offset) THEN "struct.error"
    ELSE LET name_len == Signed8(BytesAt(raw, offset, DirHeaderSize)[33])
         IN  IF name_len < 0 THEN "struct.error"
             ELSE IF ~UnpackOk(raw, name_len, offset + NameOffset)
                  THEN "struct.error"
             ELSE IF ~IsAscii(BytesAt(raw, offset + NameOffset, name_len))
                  THEN "UnicodeDecodeError"
             ELSE "none"

\* the fields DirEntry(raw, offset) sets, when it returns
DirEntry(raw, offset) ==
    LET h == BytesAt(raw, offset, DirHeaderSize)
        name_len == Signed8(h[33])
    IN  [length          |-> Signed8(h[1]),
         ext_length      |-> Signed8(h[2]),
         extent          |-> Signed32LE(h[3], h[4], h[5], h[6]),
         data_length     |-> Signed32LE(h[11], h[12], h[13], h[14]),
         datetime        |-> SubSeq(h, 19, 25),
         flags           |-> Signed8(h[26]),
         unit_size       |-> Signed8(h[27]),
         interleave_size |-> Signed8(h[28]),
         seqnum          |-> Signed16LE(h[29], h[30]),
         name_len        |-> name_len,
         name            |-> BytesAt(raw, offset + NameOffset, name_len)]

----------------------------------------------------------------------------
(* Text: a Python str is the sequence of its code points. *)

RECURSIVE DecDigits(_)
DecDigits(n) == IF n < 10 THEN <<48 + n>>
                ELSE Append(DecDigits(n \div 10), 48 + (n % 10))
\* str(n) of an int, as an f-string formats it
DecStr(n) == IF n < 0 THEN <<45>> \o DecDigits(-n) ELSE DecDigits(n)

\* the ASCII characters str.strip() removes
IsSpace(c) == c \in {9, 10, 11, 12, 13, 28, 29, 30, 31, 32}
RECURSIVE LStrip(_)
LStrip(str) == IF str # <<>> /\ IsSpace(Head(str)) THEN LStrip(Tail(str)) ELSE str
RECURSIVE RStrip(_)
RStrip(str) == IF str # <<>> /\ IsSpace(str[Len(str)])
               THEN RStrip(SubSeq(str, 1, Len(str) - 1)) ELSE str
Strip(str) == RStrip(LStrip(str))

----------------------------------------------------------------------------
(* IsoHeader: isoparser.py, lines 5-16. *)

RootDirOffset == 156

IsoHeaderError(pvd) ==
    IF ~UnpackOk(pvd, VolInfoSize, 80) THEN "struct.error"
    ELSE IF ~UnpackOk(pvd, LTableSize, 140) THEN "struct.error"
    ELSE DirEntryError(pvd, RootDirOffset)

IsoHeader(pvd) ==
    LET v == BytesAt(pvd, 80, VolInfoSize)
        l == BytesAt(pvd, 140, LTableSize)
    IN  [volume_space_size |-> Signed32LE(v[1], v[2], v[3], v[4]),
         block_size        |-> Signed16LE(v[49], v[50]),
         path_table_size   |-> Signed32LE(v[53], v[54], v[55], v[56]),
         l_table_off       |-> Signed32LE(l[1], l[2], l[3], l[4]),
         opt_l_table_off   |-> Signed32LE(l[5], l[6], l[7], l[8]),
         root_dir          |-> DirEntry(pvd, RootDirOffset)]

----------------------------------------------------------------------------
(* The PVD dump: umdb_gen_submission.py, lines 85-95 and 125-147. *)

DecodeStringError(raw, offset, size) ==
    IF ~UnpackOk(raw, size, offset) THEN "struct.error"
    ELSE IF ~IsAscii(BytesAt(raw, offset, size)) THEN "UnicodeDecodeError"
    ELSE "none"
decode_string(raw, offset, size) == Strip(BytesAt(raw, offset, size))

DecDatetimeError(raw, offset) ==
    IF ~UnpackOk(raw, DateSize, offset) THEN "struct.error"
    ELSE IF ~IsAscii(BytesAt(raw, offset, DateSize - 1)) THEN "UnicodeDecodeError"
    ELSE "none"
decdatetime_to_str(raw, offset) ==
    LET val == BytesAt(raw, offset, DateSize)
    IN  SubSeq(val, 1, 4) \o <<45>> \o SubSeq(val, 5, 6) \o <<45>>
        \o SubSeq(val, 7, 8) \o <<32>> \o SubSeq(val, 9, 10) \o <<58>>
        \o SubSeq(val, 11, 12) \o <<58>> \o SubSeq(val, 13, 14) \o <<46>>
        \o SubSeq(val, 15, 16) \o <<32, 40>> \o DecStr(Signed8(val[17])) \o <<41>>

\* the first of a sequence of results that is an error, or "none"
RECURSIVE FirstError(_)
FirstError(errs) ==
    IF errs = <<>> THEN "none"
    ELSE IF Head(errs) # "none" THEN Head(errs)
    ELSE FirstError(Tail(errs))

\* lines 137-145, in the order the fields are decoded
PvdDumpError(raw) ==
    FirstError(<<DecodeStringError(raw, 190, TextSize),
                 DecodeStringError(raw, 318, TextSize),
                 DecodeStringError(raw, 446, TextSize),
                 DecodeStringError(raw, 574, TextSize),
                 DecDatetimeError(raw, 813),
                 DecDatetimeError(raw, 830),
                 DecDatetimeError(raw, 847),
                 DecDatetimeError(raw, 864)>>)

PvdDump(raw) ==
    [volume_set_id     |-> decode_string(raw, 190, TextSize),
     publisher         |-> decode_string(raw, 318, TextSize),
     preparer          |-> decode_string(raw, 446, TextSize),
     application_id    |-> decode_string(raw, 574, TextSize),
     creation_date     |-> decdatetime_to_str(raw, 813),
     modification_date |-> decdatetime_to_str(raw, 830),
     expiration_date   |-> decdatetime_to_str(raw, 847),
     effective_date    |-> decdatetime_to_str(raw, 864)]

----------------------------------------------------------------------------
(* The stream. *)

\* stream.seek(extent * 0x800) raises on a negative position; Python's
\* product does not overflow, so its sign is the extent's
SeekOk(extent) == extent >= 0

\* stream.seek(extent * 0x800); stream.read(0x800): a whole sector, or the
\* empty bytes object at or past the end of the stream
ReadSector(d, extent) ==
    IF extent < Len(d)
    THEN [bytes |-> d[extent + 1], len |-> SectorSize]
    ELSE EmptyBuf

----------------------------------------------------------------------------
(* walk_dirs: isoparser.py, lines 79-98. *)

\* an activation: the extent of root_dir, the locals idx and i, and the
\* local `entry' while the recursive call of line 94 is running
Frame(extent) == [extent |-> extent, idx |-> 0, i |-> 0, length |-> 0]

Top == stack[Len(stack)]
Data == ReadSector(disk, Top.extent)
SetTop(f) == [stack EXCEPT ![Len(stack)] = f]

\* line 92 with `i >= 1': only the self record is passed over
RecursesFromParent(entry, i) == And2(entry.flags) # 0 /\ i >= 1

\* line 92: the record is appended and walked
Recurses(entry, i) == And2(entry.flags) # 0 /\ i >= 2

\* lines 95-96
Advance(f, length) == [f EXCEPT !.idx = f.idx + length, !.i = f.i + 1,
                                !.length = 0]

\* walk_dirs(stream, header.root_dir): `out' is None, so a new list; the
\* seek and the read of lines 83-84
WalkStart ==
    /\ walkPc = "start"
    /\ IF SeekOk(image.root)
       THEN /\ stack' = <<Frame(image.root)>>
            /\ walkPc' = "running"
            /\ walkErr' = "none"
       ELSE /\ stack' = stack
            /\ walkPc' = "failed"
            /\ walkErr' = "OSError"
    /\ out' = <<>>
    /\ UNCHANGED <<image, disk, lastEntry>>
    /\ UNCHANGED notWalk

\* line 88 raises: data[idx] with idx outside the bytes read
WalkIndexError ==
    /\ walkPc = "running"
    /\ ~IndexOk(Data, Top.idx)
    /\ walkPc' = "failed"
    /\ walkErr' = "IndexError"
    /\ UNCHANGED <<image, disk, stack, out, lastEntry>>
    /\ UNCHANGED notWalk

\* line 88 is false: return out (line 98); the caller goes on at line 95
WalkReturn ==
    /\ walkPc = "running"
    /\ IndexOk(Data, Top.idx)
    /\ Index(Data, Top.idx) = 0
    /\ IF Len(stack) = 1
       THEN /\ stack' = <<>>
            /\ walkPc' = "returned"
       ELSE LET caller == stack[Len(stack) - 1]
            IN  /\ stack' = [SubSeq(stack, 1, Len(stack) - 1)
                               EXCEPT ![Len(stack) - 1] =
                                   Advance(caller, caller.length)]
                /\ walkPc' = walkPc
    /\ UNCHANGED <<image, disk, out, walkErr, lastEntry>>
    /\ UNCHANGED notWalk

\* line 89 raises
WalkDecodeError ==
    /\ walkPc = "running"
    /\ IndexOk(Data, Top.idx)
    /\ Index(Data, Top.idx) # 0
    /\ DirEntryError(Data, Top.idx) # "none"
    /\ walkPc' = "failed"
    /\ walkErr' = DirEntryError(Data, Top.idx)
    /\ UNCHANGED <<image, disk, stack, out, lastEntry>>
    /\ UNCHANGED notWalk

\* one iteration of the loop that does not recurse: lines 89-96
WalkRecord ==
    /\ walkPc = "running"
    /\ Top.i < MaxIter
    /\ IndexOk(Data, Top.idx)
    /\ Index(Data, Top.idx) # 0
    /\ DirEntryError(Data, Top.idx) = "none"
    /\ LET entry == DirEntry(Data, Top.idx)
       IN  /\ ~Recurses(entry, Top.i)
           /\ stack' = SetTop(Advance(Top, entry.length))
           /\ lastEntry' = <<entry>>
    /\ UNCHANGED <<image, disk, out, walkPc, walkErr>>
    /\ UNCHANGED notWalk

\* an iteration that recurses: lines 89-94, up to the callee's lines 80-86
WalkDescend ==
    /\ walkPc = "running"
    /\ Top.i < MaxIter
    /\ Len(stack) < MaxDepth
    /\ IndexOk(Data, Top.idx)
    /\ Index(Data, Top.idx) # 0
    /\ DirEntryError(Data, Top.idx) = "none"
    /\ LET entry == DirEntry(Data, Top.idx)
       IN  /\ Recurses(entry, Top.i)
           /\ out' = Append(out, entry)
           /\ lastEntry' = <<entry>>
           /\ IF SeekOk(entry.extent)
              THEN /\ stack' = Append(SetTop([Top EXCEPT !.length = entry.length]),
                                      Frame(entry.extent))
                   /\ walkPc' = walkPc
                   /\ walkErr' = walkErr
              ELSE /\ stack' = stack
                   /\ walkPc' = "failed"
                   /\ walkErr' = "OSError"
    /\ UNCHANGED <<image, disk>>
    /\ UNCHANGED notWalk

WalkNext ==
    \/ WalkStart
    \/ WalkIndexError
    \/ WalkReturn
    \/ WalkDecodeError
    \/ WalkRecord
    \/ WalkDescend

----------------------------------------------------------------------------
(* Directory sectors as they lie on the disk: the byte layout that the     *)
(* format string of DirEntry reads back.                                   *)

LE32Bytes(n) == <<n % 256, (n \div 256) % 256, (n \div 65536) % 256,
                  (n \div 16777216) % 256>>
BE32Bytes(n) == <<(n \div 16777216) % 256, (n \div 65536) % 256,
                  (n \div 256) % 256, n % 256>>

\* a record is padded to an even size
PadTo2(bs) == IF Len(bs) % 2 = 1 THEN bs \o <<0>> ELSE bs

\* the record length the format gives a name: 33 + len, made even
WellLength(name) == Len(PadTo2([k \in 1..DirHeaderSize |-> 0] \o name))

\* r: [length, extent, data_length, flags, name_len, name], bytes and
\* 32-bit values as stored
EncodeDirRecord(r) ==
    PadTo2(<<r.length, 0>>
           \o LE32Bytes(r.extent) \o BE32Bytes(r.extent)
           \o LE32Bytes(r.data_length) \o BE32Bytes(r.data_length)
           \o <<110, 1, 1, 0, 0, 0, 0>>
           \o <<r.flags, 0, 0>>
           \o <<1, 0, 0, 1>>
           \o <<r.name_len>> \o r.name)

RECURSIVE EncodeDirRecords(_)
EncodeDirRecords(rs) ==
    IF rs = <<>> THEN <<>>
    ELSE EncodeDirRecord(Head(rs)) \o EncodeDirRecords(Tail(rs))

WellRecord(extent, data_length, flags, name) ==
    [length |-> WellLength(name), extent |-> extent,
     data_length |-> data_length, flags |-> flags,
     name_len |-> Len(name), name |-> name]

\* the self and parent records every directory starts with
SelfRecord(extent) == WellRecord(extent, SectorSize, 2, <<0>>)
ParentRecord(extent) == WellRecord(extent, SectorSize, 2, <<1>>)

\* the sector of the directory at `extent' whose parent is at `parent'
DirSector(extent, parent, rs) ==
    EncodeDirRecords(<<SelfRecord(extent), ParentRecord(parent)>> \o rs)

\* sector 0 is all zero, sector 1 the root directory, sector 2 a directory
\* below the root; there is no sector 3
DiskOf(img) == <<<<>>, DirSector(1, 1, img.dirs[1]), DirSector(2, 1, img.dirs[2])>>

\* the records of directory d, one for each slot: "file", or the extent of
\* a subdirectory
FileRecord(d, k) == WellRecord(100, 1024, 0, <<70, 48 + d, 48 + k>>)
SubdirRecord(d, k, to) == WellRecord(to, SectorSize, 2, <<68, 48 + d, 48 + k>>)
SlotRecords(d, slots) ==
    [k \in 1..Len(slots) |->
        IF slots[k] = -1 THEN FileRecord(d, k) ELSE SubdirRecord(d, k, slots[k])]

\* -1: a file; 0..3: a subdirectory at that extent (0: a directory with no
\* record, 3: past the end of the disk)
RootSlots == UNION {[1..n -> {-1, 0, 2, 3}] : n \in 0..MaxRecs}
SubSlots == UNION {[1..n -> {-1, 0, 3}] : n \in 0..MaxRecs}

ImageOf(s1, s2) ==
    [root |-> 1, dirs |-> <<SlotRecords(1, s1), SlotRecords(2, s2)>>]

\* trees of well-formed records, ones that point past the end of the disk
\* included
TreeImages == {ImageOf(s1, s2) : s1 \in RootSlots, s2 \in SubSlots}

\* well-formed records with a subdirectory whose extent is its own
\* directory or the directory above
CyclicImages ==
    {ImageOf(<<1>>, <<>>), ImageOf(<<-1, 1>>, <<>>), ImageOf(<<2>>, <<1>>),
     ImageOf(<<2>>, <<2>>), ImageOf(<<2>>, <<-1, 2>>)}

\* a root directory whose third record carries any length byte, and names
\* that the format does not allow
RawImages ==
    {[root |-> 1,
      dirs |-> <<<<[length |-> L, extent |-> 2, data_length |-> SectorSize,
                    flags |-> fl, name_len |-> 8,
                    name |-> <<65, 66, 67, 68, 69, 70, 71, 72>>],
                   FileRecord(1, 2)>>,
                 <<FileRecord(2, 1)>>>>] : L \in 0..255, fl \in {0, 2}}
    \cup
    {[root |-> 1,
      dirs |-> <<<<[length |-> 36, extent |-> 2, data_length |-> SectorSize,
                    flags |-> 2, name_len |-> nl, name |-> nm]>>,
                 <<>>>>] : nl \in {3, 128, 255}, nm \in {<<65, 66, 67>>, <<65, 200, 67>>}}

WalkImages == TreeImages \cup CyclicImages \cup RawImages

WalkInit ==
    /\ image \in WalkImages
    /\ disk = DiskOf(image)
    /\ stack = <<>>
    /\ out = <<>>
    /\ walkPc = "start"
    /\ walkErr = "none"
    /\ lastEntry = <<>>

----------------------------------------------------------------------------
(* The volume descriptor scan: get_pvd_header (isoparser.py, lines 67-76)  *)
(* and get_pvd_dump (umdb_gen_submission.py, lines 130-149).               *)

Zeros(n) == [k \in 1..n |-> 0]
\* a text field: the text, then spaces up to the field's size
TextField(text) == text \o [k \in 1..(TextSize - Len(text)) |-> 32]
\* a 17-byte date: 16 digits and the zone byte
DateField(zone) == <<50, 48, 48, 53, 48, 49, 48, 50, 48, 51, 48, 52, 48, 53,
                     48, 54, zone>>

\* the bytes of a primary volume descriptor, field by field at the offsets
\* IsoHeader and get_pvd_dump read
PvdBytes(type, id, text) ==
    <<type, 67, 68, 48, 48, 49, 1>> \o Zeros(73)
    \o LE32Bytes(1000 + id) \o BE32Bytes(1000 + id) \o Zeros(40)
    \o <<0, 8, 8, 0>> \o LE32Bytes(10) \o BE32Bytes(10)
    \o LE32Bytes(20 + id) \o LE32Bytes(0) \o Zeros(8)
    \o EncodeDirRecord(SelfRecord(22 + id))
    \o TextField(text \o <<48 + id>>) \o TextField(<<80>>)
    \o TextField(<<>>) \o TextField(<<65, 32, 66>>) \o Zeros(111)
    \o DateField(256 - id) \o DateField(0) \o DateField(4) \o DateField(48)

\* the sector a descriptor [type, text, len] lays out as the id-th of the
\* volume descriptor set
DescriptorBuf(d, id) ==
    [bytes |-> IF d.type = 1 THEN PvdBytes(d.type, id, d.text) ELSE <<d.type>>,
     len   |-> d.len]

\* the stream: 16 sectors of system area, then the descriptors; only the
\* last sector of a stream can be short
StreamSize(vol) ==
    IF vol.descs = <<>> THEN 16 * SectorSize
    ELSE (15 + Len(vol.descs)) * SectorSize + vol.descs[Len(vol.descs)].len

\* filestream.read(0x800) at position pos
ReadStream(vol, pos) ==
    LET s == pos \div SectorSize
    IN  IF pos >= StreamSize(vol) THEN EmptyBuf
        ELSE IF s < 15 THEN [bytes |-> <<>>, len |-> SectorSize]
        ELSE IF s = 15 THEN [bytes |-> <<vol.sys>>, len |-> SectorSize]
        ELSE DescriptorBuf(vol.descs[s - 15], s - 15)

\* what the decode of line 74, or of lines 137-146, raises
PvdDecodeError(who, raw) ==
    IF who = "get_pvd_header" THEN IsoHeaderError(raw) ELSE PvdDumpError(raw)
\* The two decodes give records of different fields.
PvdDecode(who, raw) ==
    IF who = "get_pvd_header" THEN IsoHeader(raw) ELSE PvdDump(raw)

\* lines 70-71: the seek and the first read
PvdSeekRead ==
    /\ pvdPc = "start"
    /\ raw_sector' = ReadStream(volume, PvdStart)
    /\ filePos' = PvdStart + raw_sector'.len
    /\ pvdPc' = "loop"
    /\ UNCHANGED <<volume, scanner, pvdErr, pvdResult>>
    /\ UNCHANGED notPvd

\* line 72 raises: raw_sector[0] of an empty read
PvdIndexError ==
    /\ pvdPc = "loop"
    /\ ~IndexOk(raw_sector, 0)
    /\ pvdPc' = "failed"
    /\ pvdErr' = "IndexError"
    /\ UNCHANGED <<volume, scanner, filePos, raw_sector, pvdResult>>
    /\ UNCHANGED notPvd

\* line 72 is false: the loop ends and line 76 raises
PvdTerminator ==
    /\ pvdPc = "loop"
    /\ IndexOk(raw_sector, 0)
    /\ Index(raw_sector, 0) = 255
    /\ pvdPc' = "failed"
    /\ pvdErr' = "Could not find PVD"
    /\ UNCHANGED <<volume, scanner, filePos, raw_sector, pvdResult>>
    /\ UNCHANGED notPvd

\* lines 73-74: the sector is decoded and returned
PvdFound ==
    /\ pvdPc = "loop"
    /\ IndexOk(raw_sector, 0)
    /\ Index(raw_sector, 0) # 255
    /\ Index(raw_sector, 0) = 1
    /\ IF PvdDecodeError(scanner, raw_sector) = "none"
       THEN /\ pvdResult' = <<PvdDecode(scanner, raw_sector)>>
            /\ pvdPc' = "returned"
            /\ pvdErr' = pvdErr
       ELSE /\ pvdResult' = pvdResult
            /\ pvdPc' = "failed"
            /\ pvdErr' = PvdDecodeError(scanner, raw_sector)
    /\ UNCHANGED <<volume, scanner, filePos, raw_sector>>
    /\ UNCHANGED notPvd

\* line 75: the next sector is read
PvdSkip ==
    /\ pvdPc = "loop"
    /\ IndexOk(raw_sector, 0)
    /\ Index(raw_sector, 0) # 255
    /\ Index(raw_sector, 0) # 1
    /\ raw_sector' = ReadStream(volume, filePos)
    /\ filePos' = filePos + raw_sector'.len
    /\ UNCHANGED <<volume, scanner, pvdPc, pvdErr, pvdResult>>
    /\ UNCHANGED notPvd

PvdNext ==
    \/ PvdSeekRead
    \/ PvdIndexError
    \/ PvdTerminator
    \/ PvdFound
    \/ PvdSkip

\* the descriptors a generated stream is made of: other types, terminators,
\* and primary volume descriptors with ASCII and with non-ASCII text
Descriptors ==
    {[type |-> t, text |-> <<>>, len |-> SectorSize] : t \in {0, 2, 255}}
    \cup {[type |-> 1, text |-> x, len |-> SectorSize] :
            x \in {<<86, 79, 76>>, <<86, 200, 76>>}}
\* the same, cut short by the end of the stream
ShortDescriptors ==
    {[type |-> t, text |-> <<86, 79, 76>>, len |-> 100] : t \in {0, 1}}

Volumes ==
    {[sys |-> y, descs |-> ds] :
        y \in {0, 1, 255},
        ds \in UNION {[1..n -> Descriptors] : n \in 0..MaxDescs}}
    \cup
    {[sys |-> 0, descs |-> Append(ds, d)] :
        ds \in UNION {[1..n -> Descriptors] : n \in 0..(MaxDescs - 1)},
        d \in ShortDescriptors}

PvdInit ==
    /\ volume \in Volumes
    /\ scanner \in {"get_pvd_header", "get_pvd_dump"}
    /\ filePos = 0
    /\ raw_sector = EmptyBuf
    /\ pvdPc = "start"
    /\ pvdErr = "none"
    /\ pvdResult = <<>>

----------------------------------------------------------------------------
(* PathTableEntry: isoparser.py, lines 49-64. *)

\* seq[a:b] of a bytes object: negative bounds count from the end, and
\* bounds outside the object are clipped
Slice(seq, a, b) ==
    LET n  == Len(seq)
        lo == IF a < 0 THEN Max(a + n, 0) ELSE Min(a, n)
        hi == IF b < 0 THEN Max(b + n, 0) ELSE Min(b, n)
    IN  IF lo >= hi THEN <<>> ELSE SubSeq(seq, lo + 1, hi)

PtName(raw, offset) ==
    LET len == Signed8(BytesAt(raw, offset, PtHeaderSize)[1])
    IN  Slice(raw.bytes, offset + 8, offset + 8 + len)

PathTableEntryError(raw, offset) ==
    IF ~UnpackOk(raw, PtHeaderSize, offset) THEN "struct.error"
    ELSE IF ~IsAscii(PtName(raw, offset)) THEN "UnicodeDecodeError"
    ELSE "none"

PathTableEntry(raw, offset) ==
    LET d == BytesAt(raw, offset, PtHeaderSize)
    IN  [len     |-> Signed8(d[1]),
         ext_len |-> Signed8(d[2]),
         extent  |-> Signed32LE(d[3], d[4], d[5], d[6]),
         dir_nb  |-> Signed16LE(d[7], d[8]),
         name    |-> PtName(raw, offset)]

\* PathTableEntry.size(); Python's % of an odd negative number is 1
PtSize(entry) ==
    LET fullsize == PtHeaderSize + entry.len
    IN  IF fullsize % 2 # 0 THEN fullsize + 1 ELSE fullsize

----------------------------------------------------------------------------
(* The path table loop of parse_iso: isoparser.py, lines 106-112. *)

FileSize(f) == f.start + Len(f.bytes)
FileByte(f, o) == IF o < f.start THEN 0 ELSE f.bytes[o - f.start + 1]
\* f.seek(pos); f.read(n) with n >= 0; n = -1 reads to the end
FileRead(f, pos, n) ==
    LET left  == Max(FileSize(f) - pos, 0)
        count == IF n < 0 THEN left ELSE Min(n, left)
    IN  [k \in 1..count |-> FileByte(f, pos + k - 1)]

AsBuf(bs) == [bytes |-> bs, len |-> Len(bs)]

\* lines 106-109
PtSeekRead ==
    /\ ptPc = "start"
    /\ IF header.l_table_off * header.block_size < 0
       THEN /\ ptPc' = "failed"
            /\ ptErr' = "OSError"
            /\ data' = data
       ELSE IF header.path_table_size < -1
       THEN /\ ptPc' = "failed"
            /\ ptErr' = "ValueError"
            /\ data' = data
       ELSE /\ ptPc' = "loop"
            /\ ptErr' = ptErr
            /\ data' = FileRead(file, header.l_table_off * header.block_size,
                                header.path_table_size)
    /\ ptIdx' = 0
    /\ UNCHANGED <<header, file, ptEntries>>
    /\ UNCHANGED notPt

\* lines 110-112: one iteration
PtEntry ==
    /\ ptPc = "loop"
    /\ ptIdx < header.path_table_size
    /\ PathTableEntryError(AsBuf(data), ptIdx) = "none"
    /\ LET entry == PathTableEntry(AsBuf(data), ptIdx)
       IN  /\ ptIdx' = ptIdx + PtSize(entry)
           /\ ptEntries' = <<entry>>
    /\ UNCHANGED <<header, file, data, ptPc, ptErr>>
    /\ UNCHANGED notPt

\* line 111 raises
PtEntryError ==
    /\ ptPc = "loop"
    /\ ptIdx < header.path_table_size
    /\ PathTableEntryError(AsBuf(data), ptIdx) # "none"
    /\ ptPc' = "failed"
    /\ ptErr' = PathTableEntryError(AsBuf(data), ptIdx)
    /\ UNCHANGED <<header, file, data, ptIdx, ptEntries>>
    /\ UNCHANGED notPt

\* line 110 is false: parse_iso goes on to walk_dirs
PtDone ==
    /\ ptPc = "loop"
    /\ ~(ptIdx < header.path_table_size)
    /\ ptPc' = "done"
    /\ UNCHANGED <<header, file, data, ptIdx, ptErr, ptEntries>>
    /\ UNCHANGED notPt

PtNext ==
    \/ PtSeekRead
    \/ PtEntry
    \/ PtEntryError
    \/ PtDone

LE16Bytes(n) == <<n % 256, (n \div 256) % 256>>

\* a path table entry as it lies on the disk: the length byte, the
\* extended attribute length, the extent, the parent's number, the name,
\* and a pad byte after a name of odd length
EncodePtEntry(e) ==
    PadTo2(<<e.len, 0>> \o LE32Bytes(e.extent) \o LE16Bytes(1) \o e.name)

RECURSIVE EncodePtEntries(_)
EncodePtEntries(es) ==
    IF es = <<>> THEN <<>>
    ELSE EncodePtEntry(Head(es)) \o EncodePtEntries(Tail(es))

\* entries the format allows, and entries whose length byte or name it
\* does not
PtEntryOptions ==
    {[len |-> 1, extent |-> 23, name |-> <<0>>],
     [len |-> 2, extent |-> 24, name |-> <<65, 66>>],
     [len |-> 3, extent |-> 25, name |-> <<65, 66, 67>>],
     [len |-> 2, extent |-> 26, name |-> <<65, 200>>],
     [len |-> 248, extent |-> 27, name |-> <<>>],
     [len |-> 246, extent |-> 28, name |-> <<>>],
     [len |-> 245, extent |-> 29, name |-> <<>>]}

PtTables == UNION {[1..n -> PtEntryOptions] : n \in 0..MaxPtEntries}

\* the table lies at block 20; a header may point at it, before it, past
\* the end of the stream, or before the start
PtInit ==
    /\ \E t \in PtTables :
          file = [start |-> 20 * SectorSize, bytes |-> EncodePtEntries(t)]
    /\ \E off \in {-1, 0, 20, 21}, size \in -2..MaxPtSize :
          header = [l_table_off |-> off, block_size |-> SectorSize,
                    path_table_size |-> size]
    /\ data = <<>>
    /\ ptIdx = 0
    /\ ptPc = "start"
    /\ ptErr = "none"
    /\ ptEntries = <<>>

PtIdle ==
    /\ file = [start |-> 0, bytes |-> <<>>]
    /\ header = [l_table_off |-> 0, block_size |-> 0, path_table_size |-> 0]
    /\ data = <<>>
    /\ ptIdx = 0
    /\ ptPc = "idle"
    /\ ptErr = "none"
    /\ ptEntries = <<>>

----------------------------------------------------------------------------
(* UTF-8, as bytes.decode('utf8') reads it. *)

IsCont(b) == b >= 128 /\ b <= 191

\* the number of bytes of the character that starts bs, or 0 when bs does
\* not start with a well-formed character
Utf8Width(bs) ==
    LET n == Len(bs)
        b1 == bs[1]
    IN  IF b1 < 128 THEN 1
        ELSE IF b1 >= 194 /\ b1 <= 223
        THEN IF n >= 2 /\ IsCont(bs[2]) THEN 2 ELSE 0
        ELSE IF b1 >= 224 /\ b1 <= 239
        THEN IF /\ n >= 3
                /\ IsCont(bs[2]) /\ IsCont(bs[3])
                /\ (b1 = 224 => bs[2] >= 160)
                /\ (b1 = 237 => bs[2] <= 159)
             THEN 3 ELSE 0
        ELSE IF b1 >= 240 /\ b1 <= 244
        THEN IF /\ n >= 4
                /\ IsCont(bs[2]) /\ IsCont(bs[3]) /\ IsCont(bs[4])
                /\ (b1 = 240 => bs[2] >= 144)
                /\ (b1 = 244 => bs[2] <= 143)
             THEN 4 ELSE 0
        ELSE 0

\* the code point of the well-formed character of w bytes that starts bs
Utf8Char(bs, w) ==
    IF w = 1 THEN bs[1]
    ELSE IF w = 2 THEN (bs[1] - 192) * 64 + (bs[2] - 128)
    ELSE IF w = 3
    THEN (bs[1] - 224) * 4096 + (bs[2] - 128) * 64 + (bs[3] - 128)
    ELSE (bs[1] - 240) * 262144 + (bs[2] - 128) * 4096
         + (bs[3] - 128) * 64 + (bs[4] - 128)

RECURSIVE Utf8Ok(_)
Utf8Ok(bs) ==
    \/ bs = <<>>
    \/ /\ Utf8Width(bs) > 0
       /\ Utf8Ok(SubSeq(bs, Utf8Width(bs) + 1, Len(bs)))

RECURSIVE Utf8Decode(_)
Utf8Decode(bs) ==
    IF bs = <<>> THEN <<>>
    ELSE LET w == Utf8Width(bs)
         IN  <<Utf8Char(bs, w)>> \o Utf8Decode(SubSeq(bs, w + 1, Len(bs)))

\* str.rstrip("\x00")
RECURSIVE RStripNul(_)
RStripNul(str) ==
    IF str # <<>> /\ str[Len(str)] = 0
    THEN RStripNul(SubSeq(str, 1, Len(str) - 1)) ELSE str

\* int.from_bytes(bs, "little")
RECURSIVE IntFromBytes(_)
IntFromBytes(bs) ==
    IF bs = <<>> THEN 0 ELSE Head(bs) + 256 * IntFromBytes(Tail(bs))

----------------------------------------------------------------------------
(* SFO: umdb_gen_submission.py, lines 15-82. *)

Unsigned16LE(b0, b1) == b0 + 256 * b1

\* struct.unpack(fmt, bs) wants exactly calcsize(fmt) bytes
UnpackExactOk(bs, size) == Len(bs) = size

\* SFODataFormat(value) raises ValueError for any other value
IsDataFormat(v) == v \in {UTF8_NOTERM, UTF8, INT32}

SFOIndexTableEntryError(raw, offset) ==
    LET bs == Slice(raw, offset, offset + SfoIndexSize)
    IN  IF ~UnpackExactOk(bs, SfoIndexSize) THEN "struct.error"
        ELSE IF ~IsDataFormat(Unsigned16LE(bs[3], bs[4])) THEN "ValueError"
        ELSE "none"

SFOIndexTableEntry(raw, offset) ==
    LET bs == Slice(raw, offset, offset + SfoIndexSize)
    IN  [key_offset   |-> Unsigned16LE(bs[1], bs[2]),
         data_fmt     |-> Unsigned16LE(bs[3], bs[4]),
         data_len     |-> Unsigned32LE(bs[5], bs[6], bs[7], bs[8]),
         data_max_len |-> Unsigned32LE(bs[9], bs[10], bs[11], bs[12]),
         data_offset  |-> Unsigned32LE(bs[13], bs[14], bs[15], bs[16])]

\* lines 35-39: what the header raises
SfoHeaderError(raw) ==
    IF Slice(raw, 0, 4) # <<0, 80, 83, 70>> THEN "AssertionError"
    ELSE IF ~UnpackExactOk(Slice(raw, 5, 8) \o <<0>>, 4) THEN "struct.error"
    ELSE IF ~UnpackExactOk(Slice(raw, 8, SfoHeaderSize), 12) THEN "struct.error"
    ELSE "none"

\* line 36-37: f"{raw_sfo[0x04]}.{version_minor}"
SfoVersion(raw) ==
    LET m == Slice(raw, 5, 8) \o <<0>>
    IN  DecStr(raw[5]) \o <<46>> \o DecStr(Unsigned32LE(m[1], m[2], m[3], m[4]))

\* lines 59-64: the bounds of the key of entry idx (from 0)
KeyStart(o, idx) == o.key_table_start + o.idx_table[idx + 1].key_offset
\* lines 60-63 with every key running up to the data table
KeyEndAtData(o, idx) == o.data_table_start
KeyEnd(o, idx) ==
    IF idx = Len(o.idx_table) - 1
    THEN o.data_table_start
    ELSE o.key_table_start + o.idx_table[idx + 2].key_offset
\* lines 67-68
DataStart(o, idx) == o.data_table_start + o.idx_table[idx + 1].data_offset
DataEnd(o, idx) == DataStart(o, idx) + o.idx_table[idx + 1].data_len

KeyBytes(raw, o, idx) == Slice(raw, KeyStart(o, idx), KeyEnd(o, idx))
DataBytes(raw, o, idx) == Slice(raw, DataStart(o, idx), DataEnd(o, idx))

ReadEntryError(raw, o, idx) ==
    IF ~Utf8Ok(KeyBytes(raw, o, idx)) THEN "UnicodeDecodeError"
    ELSE IF o.idx_table[idx + 1].data_fmt # INT32
            /\ ~Utf8Ok(DataBytes(raw, o, idx))
    THEN "UnicodeDecodeError"
    ELSE "none"

\* a value of the mapping: an int or a str
IntValue(n) == [type |-> "int", int |-> n, str |-> <<>>]
StrValue(str) == [type |-> "str", int |-> 0, str |-> str]

ReadKey(raw, o, idx) == RStripNul(Utf8Decode(KeyBytes(raw, o, idx)))
ReadData(raw, o, idx) ==
    IF o.idx_table[idx + 1].data_fmt = INT32
    THEN IntValue(IntFromBytes(DataBytes(raw, o, idx)))
    ELSE StrValue(RStripNul(Utf8Decode(DataBytes(raw, o, idx))))

\* d[key] = value of a dict, which keeps the order of first insertion
DictSet(d, key, value) ==
    IF \E k \in 1..Len(d) : d[k][1] = key
    THEN [k \in 1..Len(d) |-> IF d[k][1] = key THEN <<key, value>> ELSE d[k]]
    ELSE Append(d, <<key, value>>)

NoSfo == [version |-> <<>>, key_table_start |-> 0, data_table_start |-> 0,
          table_entries |-> 0, idx_table |-> <<>>, data |-> <<>>]

\* lines 35-42: the header
SfoHeader ==
    /\ sfoPc = "start"
    /\ SfoHeaderError(raw_sfo) = "none"
    /\ LET h == Slice(raw_sfo, 8, SfoHeaderSize)
       IN  sfo' = [version          |-> SfoVersion(raw_sfo),
                   key_table_start  |-> Unsigned32LE(h[1], h[2], h[3], h[4]),
                   data_table_start |-> Unsigned32LE(h[5], h[6], h[7], h[8]),
                   table_entries    |-> Unsigned32LE(h[9], h[10], h[11], h[12]),
                   idx_table        |-> <<>>,
                   data             |-> <<>>]
    /\ sfoPc' = "index"
    /\ UNCHANGED <<sfoDoc, raw_sfo, sfoI, sfoErr>>
    /\ UNCHANGED notSfo

\* lines 35-39 raise
SfoHeaderFail ==
    /\ sfoPc = "start"
    /\ SfoHeaderError(raw_sfo) # "none"
    /\ sfoPc' = "failed"
    /\ sfoErr' = SfoHeaderError(raw_sfo)
    /\ UNCHANGED <<sfoDoc, raw_sfo, sfo, sfoI>>
    /\ UNCHANGED notSfo

\* lines 43-45: one iteration; idx is len(self.idx_table)
SfoIndex ==
    /\ sfoPc = "index"
    /\ Len(sfo.idx_table) < sfo.table_entries
    /\ LET offset == SfoHeaderSize + Len(sfo.idx_table) * SfoIndexSize
       IN  /\ SFOIndexTableEntryError(raw_sfo, offset) = "none"
           /\ sfo' = [sfo EXCEPT !.idx_table =
                         Append(@, SFOIndexTableEntry(raw_sfo, offset))]
    /\ UNCHANGED <<sfoDoc, raw_sfo, sfoI, sfoPc, sfoErr>>
    /\ UNCHANGED notSfo

\* line 45 raises
SfoIndexFail ==
    /\ sfoPc = "index"
    /\ Len(sfo.idx_table) < sfo.table_entries
    /\ LET offset == SfoHeaderSize + Len(sfo.idx_table) * SfoIndexSize
       IN  /\ SFOIndexTableEntryError(raw_sfo, offset) # "none"
           /\ sfoErr' = SFOIndexTableEntryError(raw_sfo, offset)
    /\ sfoPc' = "failed"
    /\ UNCHANGED <<sfoDoc, raw_sfo, sfo, sfoI>>
    /\ UNCHANGED notSfo

\* line 48: the index table is read
SfoDataInit ==
    /\ sfoPc = "index"
    /\ Len(sfo.idx_table) = sfo.table_entries
    /\ sfo' = [sfo EXCEPT !.data = <<>>]
    /\ sfoI' = 0
    /\ sfoPc' = "entries"
    /\ UNCHANGED <<sfoDoc, raw_sfo, sfoErr>>
    /\ UNCHANGED notSfo

\* lines 49-50: one call of _read_entry
SfoReadEntry ==
    /\ sfoPc = "entries"
    /\ sfoI < Len(sfo.idx_table)
    /\ ReadEntryError(raw_sfo, sfo, sfoI) = "none"
    /\ sfo' = [sfo EXCEPT !.data = DictSet(@, ReadKey(raw_sfo, sfo, sfoI),
                                           ReadData(raw_sfo, sfo, sfoI))]
    /\ sfoI' = sfoI + 1
    /\ UNCHANGED <<sfoDoc, raw_sfo, sfoPc, sfoErr>>
    /\ UNCHANGED notSfo

\* line 64 or line 72 raises
SfoReadFail ==
    /\ sfoPc = "entries"
    /\ sfoI < Len(sfo.idx_table)
    /\ ReadEntryError(raw_sfo, sfo, sfoI) # "none"
    /\ sfoPc' = "failed"
    /\ sfoErr' = ReadEntryError(raw_sfo, sfo, sfoI)
    /\ UNCHANGED <<sfoDoc, raw_sfo, sfo, sfoI>>
    /\ UNCHANGED notSfo

\* the constructor returns
SfoDone ==
    /\ sfoPc = "entries"
    /\ sfoI = Len(sfo.idx_table)
    /\ sfoPc' = "done"
    /\ UNCHANGED <<sfoDoc, raw_sfo, sfo, sfoI, sfoErr>>
    /\ UNCHANGED notSfo

SfoNext ==
    \/ SfoHeader
    \/ SfoHeaderFail
    \/ SfoIndex
    \/ SfoIndexFail
    \/ SfoDataInit
    \/ SfoReadEntry
    \/ SfoReadFail
    \/ SfoDone

\* SFO.dump()
SfoDump(o) == [version |-> o.version, fields |-> o.data]

----------------------------------------------------------------------------
(* SFO buffers as they are laid out: the header, the index table, the key  *)
(* table (each key NUL-terminated, the table padded to 4 bytes), the data  *)
(* table (each value in data_max_len bytes, a multiple of 4).              *)

PadTo4(bs) == bs \o Zeros((4 - (Len(bs) % 4)) % 4)

KeySpace(e) == Len(e.key) + 1
DataSpace(e) == Len(PadTo4(e.bytes))

RECURSIVE KeyOffsetOf(_, _)
\* where the key of entry i starts in the key table
KeyOffsetOf(es, i) ==
    IF i <= 1 THEN 0 ELSE KeySpace(es[i - 1]) + KeyOffsetOf(es, i - 1)

RECURSIVE DataOffsetOf(_, _)
\* where the value of entry i starts in the data table
DataOffsetOf(es, i) ==
    IF i <= 1 THEN 0 ELSE DataSpace(es[i - 1]) + DataOffsetOf(es, i - 1)

RECURSIVE Concat(_)
Concat(ss) == IF ss = <<>> THEN <<>> ELSE Head(ss) \o Concat(Tail(ss))

EncodeSfo(doc) ==
    LET es == doc.entries
        n == Len(es)
        keys == PadTo4(Concat([k \in 1..n |-> es[k].key \o <<0>>]))
        key_table_start == SfoHeaderSize + n * SfoIndexSize
        data_table_start == key_table_start + Len(keys)
    IN  <<0, 80, 83, 70, doc.major>> \o doc.minor
        \o LE32Bytes(key_table_start) \o LE32Bytes(data_table_start)
        \o LE32Bytes(doc.count)
        \o Concat([k \in 1..n |->
              LE16Bytes(KeyOffsetOf(es, k)) \o LE16Bytes(es[k].fmt)
              \o LE32Bytes(Len(es[k].bytes)) \o LE32Bytes(DataSpace(es[k]))
              \o LE32Bytes(DataOffsetOf(es, k))])
        \o keys
        \o Concat([k \in 1..n |-> PadTo4(es[k].bytes)])

\* entries the format allows: a key, a format, the bytes of the value, and
\* the value they stand for
TitleEntry == [key |-> <<84, 73, 84, 76, 69>>, fmt |-> UTF8,
               bytes |-> <<71, 65, 77, 69, 0>>,
               value |-> StrValue(<<71, 65, 77, 69>>)]
SfoEntryOptions ==
    {TitleEntry,
     [key |-> <<65>>, fmt |-> INT32, bytes |-> <<1, 2, 0, 0>>,
      value |-> IntValue(513)],
     [key |-> <<66, 67>>, fmt |-> UTF8_NOTERM, bytes |-> <<88, 89>>,
      value |-> StrValue(<<88, 89>>)],
     [key |-> <<68>>, fmt |-> UTF8, bytes |-> <<195, 169, 0>>,
      value |-> StrValue(<<233>>)]}
\* entries it does not allow: an unknown format, bytes that are not UTF-8
BadSfoEntryOptions ==
    {[key |-> <<69>>, fmt |-> 256, bytes |-> <<1, 0, 0, 0>>,
      value |-> IntValue(1)],
     [key |-> <<255>>, fmt |-> UTF8, bytes |-> <<71, 0>>,
      value |-> StrValue(<<71>>)],
     [key |-> <<70>>, fmt |-> UTF8, bytes |-> <<195, 40, 0>>,
      value |-> StrValue(<<>>)]}

DistinctKeys(es) ==
    \A j, k \in 1..Len(es) : j # k => es[j].key # es[k].key

SfoVersions == {[major |-> 1, minor |-> <<1, 0, 0>>],
                [major |-> 12, minor |-> <<2, 1, 0>>]}

\* well-formed documents: entries the format allows, with distinct keys
WellSfoDocs ==
    {[kind |-> "well", major |-> v.major, minor |-> v.minor,
      entries |-> es, count |-> Len(es)] :
        v \in SfoVersions,
        es \in {x \in UNION {[1..n -> SfoEntryOptions] : n \in 0..MaxSfoEntries} :
                  DistinctKeys(x)}}

\* documents the format does not allow: a repeated key, a bad entry, an
\* entry count that is not the number of entries
BadEntryDocs ==
    {[kind |-> "bad", major |-> 1, minor |-> <<1, 0, 0>>,
      entries |-> es, count |-> Len(es)] :
        es \in {x \in UNION {[1..n -> SfoEntryOptions \cup BadSfoEntryOptions] :
                               n \in 1..MaxSfoEntries} :
                  ~DistinctKeys(x) \/ \E k \in 1..Len(x) : x[k] \in BadSfoEntryOptions}}

BadCountDocs ==
    {[d EXCEPT !.kind = "bad", !.count = c] :
        d \in {x \in WellSfoDocs : x.major = 1},
        c \in 0..(MaxSfoEntries + 1)}

BadSfoDocs ==
    BadEntryDocs \cup {d \in BadCountDocs : d.count # Len(d.entries)}

SfoInit ==
    /\ \/ /\ sfoDoc \in WellSfoDocs \cup BadSfoDocs
          /\ raw_sfo = EncodeSfo(sfoDoc)
       \/ \E d \in {x \in WellSfoDocs : x.major = 1} :
             \E t \in 0..(Len(EncodeSfo(d)) - 1) :
                /\ sfoDoc = [d EXCEPT !.kind = "truncated"]
                /\ raw_sfo = SubSeq(EncodeSfo(d), 1, t)
       \/ \E d \in {x \in WellSfoDocs : x.major = 1} :
             /\ sfoDoc = [d EXCEPT !.kind = "bad"]
             /\ raw_sfo = [EncodeSfo(d) EXCEPT ![1] = 1]
    /\ sfo = NoSfo
    /\ sfoI = 0
    /\ sfoPc = "start"
    /\ sfoErr = "none"

SfoIdle ==
    /\ sfoDoc = [kind |-> "none", major |-> 0, minor |-> <<>>,
                 entries |-> <<>>, count |-> 0]
    /\ raw_sfo = <<>>
    /\ sfo = NoSfo
    /\ sfoI = 0
    /\ sfoPc = "idle"
    /\ sfoErr = "none"

PvdIdle ==
    /\ volume = [sys |-> 0, descs |-> <<>>]
    /\ scanner = "none"
    /\ filePos = 0
    /\ raw_sector = EmptyBuf
    /\ pvdPc = "idle"
    /\ pvdErr = "none"
    /\ pvdResult = <<>>

WalkIdle ==
    /\ image = [root |-> 0, dirs |-> <<>>]
    /\ disk = <<>>
    /\ stack = <<>>
    /\ out = <<>>
    /\ walkPc = "idle"
    /\ walkErr = "none"
    /\ lastEntry = <<>>

\* a run is one operation on one input; the others stay idle
Init ==
    \/ WalkInit /\ PvdIdle /\ PtIdle /\ SfoIdle
    \/ PvdInit /\ WalkIdle /\ PtIdle /\ SfoIdle
    \/ PtInit /\ WalkIdle /\ PvdIdle /\ SfoIdle
    \/ SfoInit /\ WalkIdle /\ PvdIdle /\ PtIdle

Next ==
    \/ WalkNext
    \/ PvdNext
    \/ PtNext
    \/ SfoNext

Spec == Init /\ [][Next]_vars

----------------------------------------------------------------------------
(* Properties of walk_dirs. *)

PseudoName(e) == e.name \in {<<0>>, <<1>>}

\* C1: the list walk_dirs returns holds no self (name byte 0x00) and no
\* parent (name byte 0x01) record, at any depth: in every activation the
\* records of index 0 and 1 are neither appended nor walked (nothing is
\* appended while the root's index is below 2, and every calling activation
\* is at index 2 or more), and the cursor has moved by their record
\* lengths (it stands at the first length after one record and at the sum
\* of the two after two).  The records are told apart by position, as line 92
\* does; in every image the names 0x00 and 0x01 are those of records 0 and 1.
NoPseudoEntries ==
    /\ walkPc = "returned" => \A k \in 1..Len(out) : ~PseudoName(out[k])
    /\ walkPc = "running" =>
          \A d \in 1..Len(stack) :
             LET f   == stack[d]
                 sec == ReadSector(disk, f.extent)
                 l0  == DirEntry(sec, 0).length
             IN  /\ f.i = 1 => f.idx = l0
                 /\ f.i = 2 => f.idx = l0 + DirEntry(sec, l0).length
                 /\ d < Len(stack) => f.i >= 2
                 /\ d = 1 /\ f.i < 2 => out = <<>>

\* a walk that returned with a record of the directory below the root
ReturnedNested ==
    /\ walkPc = "returned"
    /\ \E k \in 1..Len(out) :
          /\ Len(out[k].name) = 3
          /\ out[k].name[2] = 50
          /\ k >= 2

Listed(e) == <<e.name, e.extent, e.data_length>>

RECURSIVE PreOrderAll(_, _, _)
\* every record below the directory at `extent', a directory before the
\* records below it
PreOrderAll(img, extent, fuel) ==
    IF fuel = 0 \/ extent \notin {1, 2} THEN <<>>
    ELSE Concat([k \in 1..Len(img.dirs[extent]) |->
            LET r == img.dirs[extent][k]
            IN  IF And2(r.flags) # 0
                THEN <<Listed(r)>> \o PreOrderAll(img, r.extent, fuel - 1)
                ELSE <<Listed(r)>>])

\* C2: on a tree of well-formed records the list walk_dirs returns is the
\* pre-order sequence of all the records reachable from the root that are
\* not self or parent records, files and directories alike.
ReturnsAllReachable ==
    walkPc = "returned" /\ image \in TreeImages =>
        [k \in 1..Len(out) |-> Listed(out[k])] = PreOrderAll(image, image.root, 3)

\* C4: an iteration of the record loop leaves the cursor of its sector
\* strictly further on (or the walk fails), whatever the record_length byte.
CursorAdvances ==
    [][walkPc = "running" /\ walkPc' = "running"
       /\ Len(stack') = Len(stack) /\ stack' # stack
       => stack'[Len(stack)].idx > stack[Len(stack)].idx]_vars

\* C6: the walk is never more than 32 activations deep.
DepthBounded == Len(stack) <= 32

\* C9: every record the walker decoded and moved its cursor by has
\* record_length >= 33 + name_length + (1 if name_length is even else 0).
DecodedRecordsWellFormed ==
    \A k \in 1..Len(lastEntry) :
        lastEntry[k].length >=
            DirHeaderSize + lastEntry[k].name_len
            + (IF lastEntry[k].name_len % 2 = 0 THEN 1 ELSE 0)

----------------------------------------------------------------------------
(* Properties of the volume descriptor scan. *)

\* the first descriptor of type 0x01 or 0xFF, or 0 when there is none
FirstStop(vol) ==
    LET S == {k \in 1..Len(vol.descs) : vol.descs[k].type \in {1, 255}}
    IN  IF S = {} THEN 0 ELSE CHOOSE k \in S : \A j \in S : k <= j

PvdFinal == pvdPc \in {"returned", "failed"}

\* C3: the scan reads the sectors from byte 0x8000 on in order; it ends at
\* the first sector whose first byte is 0x01 or 0xFF: with the decode of the
\* sector (its value, or the error the decode raises) when the byte is
\* 0x01, with "Could not find PVD" when it is 0xFF (and then only); it
\* passes over the sectors of any other first byte.
ScanStopsAtFirstPvdOrTerminator ==
    LET k   == FirstStop(volume)
        sec == DescriptorBuf(volume.descs[k], k)
    IN  /\ pvdPc = "returned" =>
              /\ k > 0 /\ volume.descs[k].type = 1
              /\ pvdResult = <<PvdDecode(scanner, sec)>>
        /\ PvdFinal /\ k > 0 /\ volume.descs[k].type = 1 =>
              IF PvdDecodeError(scanner, sec) = "none"
              THEN pvdPc = "returned"
              ELSE pvdPc = "failed" /\ pvdErr = PvdDecodeError(scanner, sec)
        /\ PvdFinal /\ k > 0 /\ volume.descs[k].type = 255 =>
              pvdPc = "failed" /\ pvdErr = "Could not find PVD"
        /\ pvdErr = "Could not find PVD" => k > 0 /\ volume.descs[k].type = 255
        /\ pvdPc = "loop" /\ raw_sector.len > 0 =>
              LET n == (filePos - raw_sector.len) \div SectorSize - 15
              IN  /\ n \in 1..Len(volume.descs)
                  /\ raw_sector = DescriptorBuf(volume.descs[n], n)
                  /\ \A j \in 1..(n - 1) : volume.descs[j].type \notin {1, 255}

\* get_pvd_dump returned the second descriptor, after one of another type
DumpAfterSkip ==
    /\ pvdPc = "returned"
    /\ scanner = "get_pvd_dump"
    /\ FirstStop(volume) = 2

\* C10: on a stream with no sector of type 0x01 or 0xFF the scan ends with
\* "Could not find PVD".
ScanEndsNotFound ==
    PvdFinal /\ FirstStop(volume) = 0 => pvdErr = "Could not find PVD"

----------------------------------------------------------------------------
(* Properties of the path table loop. *)

\* C5: the loop of parse_iso ends normally only with the cursor at
\* path_table_size.
PathTableEndsAtSize ==
    ptPc = "done" /\ header.path_table_size >= 0 =>
        ptIdx = header.path_table_size

----------------------------------------------------------------------------
(* Properties of the SFO decoder. *)

\* C7: from the buffer of a well-formed document the decoder returns one
\* mapping entry per index entry, in table order, with the document's keys
\* (the key table's padding stripped) and values (an Int32 as its
\* little-endian value, text without its trailing NULs), and the version
\* "major.minor" with minor the little-endian value of bytes 5..7; it does
\* not fail.
DecodesWellFormedSfo ==
    sfoDoc.kind = "well" =>
        /\ sfoPc # "failed"
        /\ sfoPc = "done" =>
              /\ Len(SfoDump(sfo).fields) = sfoDoc.count
              /\ \A k \in 1..sfoDoc.count :
                    SfoDump(sfo).fields[k] =
                        <<sfoDoc.entries[k].key, sfoDoc.entries[k].value>>
              /\ SfoDump(sfo).version =
                    DecStr(sfoDoc.major) \o <<46>>
                    \o DecStr(sfoDoc.minor[1] + 256 * sfoDoc.minor[2]
                              + 65536 * sfoDoc.minor[3])

\* a decoded well-formed document of two entries, an integer among them,
\* with a minor version above 255
DecodedTwoEntries ==
    /\ sfoPc = "done"
    /\ sfoDoc.kind = "well"
    /\ Len(sfo.data) = 2
    /\ sfoDoc.major = 12
    /\ \E k \in 1..2 : sfo.data[k][2].type = "int"

\* C8: the decoder returns a document only if every key span and every
\* value span lies inside the buffer.
SpansInsideBuffer ==
    sfoPc = "done" =>
        \A i \in 0..(Len(sfo.idx_table) - 1) :
            /\ KeyEnd(sfo, i) <= Len(raw_sfo)
            /\ DataEnd(sfo, i) <= Len(raw_sfo)

====
